---- MODULE Spec2Model ----
(***************************************************************************)
(* Model of the Falcon host search web page                                *)
(* (falcon_host_search_site.py): file_parse, cs_query_devices with its     *)
(* thread pool and the two search closures, cs_detail_search, and the      *)
(* request entry point upload_file.                                        *)
(*                                                                         *)
(* Text is a sequence of one-character strings.  Python values that may be *)
(* either the bool False or a list are records [isList, items].            *)
(* The numeric limits of the program (5000 names, 5000 ids, 100 workers,   *)
(* 50 matches per search) are kept as named definitions with small values  *)
(* so that both sides of every comparison are reached.                     *)
(***************************************************************************)
EXTENDS Integers, Sequences, FiniteSets, TLC

VARIABLES submitted_list, pc, exc, iname_list, hname_list, tasks,
          aid_objs, aid_list, flat, host_info_list, fetch_calls, fetch_ids,
          details_response,
          sensors, NMINUS, SHOW_ALL, OSVER, dpc, sidx, version_map,
          DO_DOWNLOAD, dl_complete, downloads, notes

\* the state of sensor_download.py
dlvars == <<sensors, NMINUS, SHOW_ALL, OSVER, dpc, sidx, version_map,
            DO_DOWNLOAD, dl_complete, downloads, notes>>

\* the state of one request of the host search page
hostvars == <<submitted_list, pc, exc, iname_list, hname_list, tasks,
              aid_objs, aid_list, flat, host_info_list, fetch_calls,
              fetch_ids, details_response>>

vars == <<hostvars, dlvars>>

----------------------------------------------------------------------------
(* Program limits (scaled) *)

\* file_parse: "if len(host_list) > 5000"
MaxNames == 3
\* cs_detail_search: "elif 0 < len(aid_list) <= 5000"
MaxAids == 3
\* ThreadPoolExecutor(max_workers=100)
MaxWorkers == 2
\* query_devices_by_filter_scroll(limit = 50, ...)
SearchLimit == 2

(* Bounds of the model *)

\* longest text of the file_parse specification, in characters
MaxChars == 7
\* most lines of a text submitted to the whole pipeline
MaxLines == 4
\* most records the remote detail fetch returns
MaxRecords == 2
\* most sensor records the installer query returns
MaxSensors == 3

----------------------------------------------------------------------------
(* Characters and text *)

NL == "\n"
Whitespace == {" ", NL}
WordChars == {"i", "a"}
Alphabet == {"i", "-", ".", " ", NL}

Devices == {"d1", "d2"}

SeqsUpTo(S, n) == UNION {[1..k -> S] : k \in 0..n}

\* str.split("\n"): the segments between newlines; "" splits to [""]
RECURSIVE Split(_)
Split(s) ==
  IF \A k \in 1..Len(s) : s[k] # NL THEN <<s>>
  ELSE LET p == CHOOSE k \in 1..Len(s) :
                  s[k] = NL /\ \A j \in 1..(k - 1) : s[j] # NL
       IN <<SubSeq(s, 1, p - 1)>> \o Split(SubSeq(s, p + 1, Len(s)))

\* str.strip(): leading and trailing whitespace removed
RECURSIVE Strip(_)
Strip(s) ==
  IF s = <<>> THEN s
  ELSE IF s[1] \in Whitespace THEN Strip(Tail(s))
  ELSE IF s[Len(s)] \in Whitespace THEN Strip(SubSeq(s, 1, Len(s) - 1))
  ELSE s

\* [i.strip() for i in host_items_split]
StripAll(ls) == [k \in 1..Len(ls) |-> Strip(ls[k])]

\* while "" in host_list: host_list.remove("")
RemoveEmptyOnce(ls) ==
  IF \A k \in 1..Len(ls) : ls[k] # <<>> THEN ls
  ELSE LET p == CHOOSE k \in 1..Len(ls) :
                  ls[k] = <<>> /\ \A j \in 1..(k - 1) : ls[j] # <<>>
       IN SubSeq(ls, 1, p - 1) \o SubSeq(ls, p + 1, Len(ls))
RemoveEmpty(ls) == SelectSeq(ls, LAMBDA l : l # <<>>)

\* re.sub(r"\..*", "", host_or_id): a line holds no newline, so the first
\* match runs from the first "." to the end of the line
ReSubDomain(s) ==
  IF \A k \in 1..Len(s) : s[k] # "." THEN s
  ELSE LET p == CHOOSE k \in 1..Len(s) :
                  s[k] = "." /\ \A j \in 1..(k - 1) : s[j] # "."
       IN SubSeq(s, 1, p - 1)

\* re.match(r"^i-\b.*$", host_or_id): after "-" (not a word character) the
\* \b holds only when a word character follows
ReMatchInstanceLoose(s) == Len(s) >= 2 /\ s[1] = "i" /\ s[2] = "-"
ReMatchInstance(s) ==
  Len(s) >= 3 /\ s[1] = "i" /\ s[2] = "-" /\ s[3] \in WordChars

PyFalse == [isList |-> FALSE, items |-> <<>>]
PyList(xs) == [isList |-> TRUE, items |-> xs]
\* truth value of a Python object that is False or a list
PyTruthy(v) == v.isList /\ v.items # <<>>
\* v == False
PyEqFalse(v) == ~v.isList

host_list_of(text) == RemoveEmpty(StripAll(Split(text)))

TooManyNames(hl) == Len(hl) > MaxNames

StrippedTokens(hl) == [k \in 1..Len(hl) |-> ReSubDomain(hl[k])]

\* file_parse returns (iname_list, hname_list), or (False, False)
file_parse_inames(text) ==
  LET hl == host_list_of(text) IN
  IF TooManyNames(hl) THEN PyFalse
  ELSE PyList(SelectSeq(StrippedTokens(hl), ReMatchInstance))

file_parse_hnames(text) ==
  LET hl == host_list_of(text) IN
  IF TooManyNames(hl) THEN PyFalse
  ELSE PyList(SelectSeq(StrippedTokens(hl), LAMBDA t : ~ReMatchInstance(t)))

----------------------------------------------------------------------------
(* Initial states *)

InitRest ==
  /\ pc = "file_parse"
  /\ exc = "none"
  /\ iname_list = PyFalse
  /\ hname_list = PyFalse
  /\ tasks = <<>>
  /\ aid_objs = [old |-> <<>>, new |-> <<>>]
  /\ aid_list = "old"
  /\ flat = <<>>
  /\ host_info_list = <<>>
  /\ fetch_calls = 0
  /\ fetch_ids = <<>>
  /\ details_response = <<>>

\* sensor_download.py is not running
DlIdle ==
  /\ sensors = <<>>
  /\ NMINUS = 0
  /\ SHOW_ALL = FALSE
  /\ OSVER = ""
  /\ dpc = "idle"
  /\ sidx = 0
  /\ version_map = <<>>
  /\ DO_DOWNLOAD = TRUE
  /\ dl_complete = <<>>
  /\ downloads = <<>>
  /\ notes = <<>>

\* any text of at most MaxChars characters
InitParse ==
  /\ submitted_list \in SeqsUpTo(Alphabet, MaxChars)
  /\ InitRest
  /\ DlIdle

\* upload_file, line 211: iname_list, hname_list = file_parse(submitted_list)
CallFileParse ==
  /\ pc = "file_parse"
  /\ iname_list' = file_parse_inames(submitted_list)
  /\ hname_list' = file_parse_hnames(submitted_list)
  /\ pc' = "branch"
  /\ UNCHANGED <<dlvars, details_response,
                 submitted_list, exc, tasks, aid_objs, aid_list, flat,
                 host_info_list, fetch_calls, fetch_ids>>

NextParse == CallFileParse

SpecParse == InitParse /\ [][NextParse]_vars

----------------------------------------------------------------------------
(* The whole request: upload_file *)

\* lines a user submits to the pipeline
SampleLines == {<<"a", ".", "c">>, <<"i", "-", "a">>}

RECURSIVE JoinLines(_)
JoinLines(ls) ==
  IF ls = <<>> THEN <<>>
  ELSE IF Len(ls) = 1 THEN ls[1]
  ELSE ls[1] \o <<NL>> \o JoinLines(Tail(ls))

Init ==
  /\ submitted_list \in {JoinLines(ls) : ls \in SeqsUpTo(SampleLines, MaxLines)}
  /\ InitRest
  /\ DlIdle

(* Output rows.  kind "notfound" is f"{name},{is_found}" with is_found     *)
(* False, "error" the retry advice of a search, "device" the detail row of *)
(* one record (is_found True), "toomany" the row of upload_file,           *)
(* "aggregate" the row of the else branch of cs_detail_search.             *)
Row(kind, tok, dev, n) == [kind |-> kind, tok |-> tok, dev |-> dev, n |-> n]
NotFoundRow(tok) == Row("notfound", tok, "", 0)
ErrorRow(tok) == Row("error", tok, "", 0)
DeviceRow(dev) == Row("device", <<>>, dev, 0)
TooManyRow == Row("toomany", <<>>, "", 0)
AggregateRow(n) == Row("aggregate", <<>>, "", n)

\* upload_file, line 213: "if iname_list and hname_list == False"
\* (== binds tighter than and)
TooManyBranch(il, hl) == PyTruthy(il) /\ PyEqFalse(hl)

\* upload_file, lines 213-219
Branch ==
  /\ pc = "branch"
  /\ IF TooManyBranch(iname_list, hname_list)
     THEN /\ host_info_list' = <<TooManyRow>>
          /\ pc' = "done"
     ELSE /\ host_info_list' = <<>>
          /\ pc' = "map_inames"
  /\ UNCHANGED <<dlvars, details_response,
                 submitted_list, exc, iname_list, hname_list, tasks,
                 aid_objs, aid_list, flat, fetch_calls, fetch_ids>>

(* cs_query_devices.  A task is one call of search_inames or search_hnames *)
(* submitted to the pool: st is "queued", "calling" (the remote search is  *)
(* in flight), "append" (response 200 with matches, aid_list read, append  *)
(* not yet done) or "done".                                                *)
NewTask(kind, tok) ==
  [kind |-> kind, tok |-> tok, st |-> "queued", calls |-> 0,
   status |-> 0, aid |-> <<>>, ref |-> "none"]

NewTasks(kind, toks) == [k \in 1..Len(toks) |-> NewTask(kind, toks[k])]

\* executor.map(fn, iterable) submits one task per element at once;
\* zip(False) raises TypeError, which leaves the with block and the request
MapBucket(here, bucket, kind, next) ==
  /\ pc = here
  /\ IF bucket.isList
     THEN /\ tasks' = tasks \o NewTasks(kind, bucket.items)
          /\ pc' = next
          /\ exc' = exc
     ELSE /\ tasks' = tasks
          /\ pc' = "error"
          /\ exc' = "TypeError"
  /\ UNCHANGED <<dlvars, details_response,
                 submitted_list, iname_list, hname_list, aid_objs, aid_list,
                 flat, host_info_list, fetch_calls, fetch_ids>>

MapInames == MapBucket("map_inames", iname_list, "iname", "map_hnames")
MapHnames == MapBucket("map_hnames", hname_list, "hname", "flatten")

Running == {k \in 1..Len(tasks) : tasks[k].st \in {"calling", "append"}}

\* a free worker of the pool takes the oldest queued task and issues the
\* remote search of search_inames / search_hnames
FreeWorkerUnbounded == TRUE
FreeWorkerNeverReused ==
  Cardinality({k \in 1..Len(tasks) : tasks[k].st # "queued"}) < MaxWorkers
FreeWorker == Cardinality(Running) < MaxWorkers

StartTask(i) ==
  /\ i \in 1..Len(tasks)
  /\ tasks[i].st = "queued"
  /\ \A j \in 1..(i - 1) : tasks[j].st # "queued"
  /\ FreeWorker
  /\ tasks' = [tasks EXCEPT ![i].st = "calling", ![i].calls = @ + 1]
  /\ UNCHANGED <<dlvars, details_response,
                 submitted_list, pc, exc, iname_list, hname_list, aid_objs,
                 aid_list, flat, host_info_list, fetch_calls, fetch_ids>>

\* what one search may return in body.resources: at most SearchLimit
\* distinct device ids
SearchResults ==
  {r \in SeqsUpTo(Devices, SearchLimit) :
     \A a, b \in 1..Len(r) : a # b => r[a] # r[b]}

StatusCodes == {200, 500}

\* the rows one search appends to host_info_list: none when it matched,
\* the not-found row on 200 without matches, the retry advice otherwise
SearchRowsNoElse(tok, status, res) ==
  IF status = 200
  THEN (IF res # <<>> THEN <<>> ELSE <<NotFoundRow(tok)>>)
  ELSE <<NotFoundRow(tok), ErrorRow(tok)>>
SearchRowsErrorDropped(tok, status, res) ==
  IF status = 200
  THEN (IF res # <<>> THEN <<>> ELSE <<NotFoundRow(tok)>>)
  ELSE <<NotFoundRow(tok)>>
SearchRows(tok, status, res) ==
  IF status = 200
  THEN (IF res # <<>> THEN <<>> ELSE <<NotFoundRow(tok)>>)
  ELSE <<ErrorRow(tok)>>

\* search_inames lines 98-110, search_hnames lines 123-135: the response
\* arrives; a row is appended, or aid_list is read for the append
Respond(i, status, res) ==
  /\ i \in 1..Len(tasks)
  /\ tasks[i].st = "calling"
  /\ IF status = 200 /\ res # <<>>
     THEN tasks' = [tasks EXCEPT ![i].st = "append", ![i].status = status,
                                 ![i].aid = res, ![i].ref = aid_list]
     ELSE tasks' = [tasks EXCEPT ![i].st = "done", ![i].status = status]
  /\ host_info_list' = host_info_list \o SearchRows(tasks[i].tok, status, res)
  /\ UNCHANGED <<dlvars, details_response,
                 submitted_list, pc, exc, iname_list, hname_list, aid_objs,
                 aid_list, flat, fetch_calls, fetch_ids>>

\* an element of an aid list: one device id, or a sub-list of ids
Plain(d) == [plain |-> TRUE, ids |-> <<d>>]
SubList(ds) == [plain |-> FALSE, ids |-> ds]

\* aid_list.append(aid) on the list object the task read
AppendAid(i) ==
  /\ i \in 1..Len(tasks)
  /\ tasks[i].st = "append"
  /\ aid_objs' = [aid_objs EXCEPT ![tasks[i].ref] = Append(@, SubList(tasks[i].aid))]
  /\ tasks' = [tasks EXCEPT ![i].st = "done"]
  /\ UNCHANGED <<dlvars, details_response,
                 submitted_list, pc, exc, iname_list, hname_list, aid_list,
                 flat, host_info_list, fetch_calls, fetch_ids>>

\* [i for sub_list in aid_list for i in sub_list]
RECURSIVE Flatten(_)
Flatten(l) ==
  IF l = <<>> THEN <<>>
  ELSE [k \in 1..Len(l[1].ids) |-> Plain(l[1].ids[k])] \o Flatten(Tail(l))

\* line 143, right-hand side: the comprehension runs inside the with block
FlattenRead ==
  /\ pc = "flatten"
  /\ flat' = Flatten(aid_objs[aid_list])
  /\ pc' = "rebind"
  /\ UNCHANGED <<dlvars, details_response,
                 submitted_list, exc, iname_list, hname_list, tasks,
                 aid_objs, aid_list, host_info_list, fetch_calls, fetch_ids>>

\* line 143, the assignment: the name aid_list, shared with the closures,
\* now names the new list
FlattenStore ==
  /\ pc = "rebind"
  /\ aid_objs' = [aid_objs EXCEPT !.new = flat]
  /\ aid_list' = "new"
  /\ pc' = "join"
  /\ UNCHANGED <<dlvars, details_response,
                 submitted_list, exc, iname_list, hname_list, tasks, flat,
                 host_info_list, fetch_calls, fetch_ids>>

\* line 147 and the end of the with block: shutdown(wait=True) returns when
\* every submitted task has run
ExitPoolNoWait ==
  /\ pc = "join"
  /\ pc' = "detail"
  /\ UNCHANGED <<dlvars, details_response,
                 submitted_list, exc, iname_list, hname_list, tasks,
                 aid_objs, aid_list, flat, host_info_list, fetch_calls,
                 fetch_ids>>
ExitPool ==
  /\ pc = "join"
  /\ \A k \in 1..Len(tasks) : tasks[k].st = "done"
  /\ pc' = "detail"
  /\ UNCHANGED <<dlvars, details_response,
                 submitted_list, exc, iname_list, hname_list, tasks,
                 aid_objs, aid_list, flat, host_info_list, fetch_calls,
                 fetch_ids>>

(* cs_detail_search(falcon, aid_list, host_info_list), called by           *)
(* upload_file with the list cs_query_devices returned.                    *)
returned_aid_list == aid_objs[aid_list]

\* line 154-158: host_info_list.apppend is no method of list
DetailEmpty ==
  /\ pc = "detail"
  /\ Len(returned_aid_list) = 0
  /\ pc' = "error"
  /\ exc' = "AttributeError"
  /\ UNCHANGED <<dlvars, details_response,
                 submitted_list, iname_list, hname_list, tasks, aid_objs,
                 aid_list, flat, host_info_list, fetch_calls, fetch_ids>>

\* what get_device_details may return in body.resources
DetailResponses == SeqsUpTo(Devices, MaxRecords)

DeviceRowsReversed(recs) ==
  [k \in 1..Len(recs) |-> DeviceRow(recs[Len(recs) + 1 - k])]
DeviceRows(recs) == [k \in 1..Len(recs) |-> DeviceRow(recs[k])]

WithinCeiling(n) == 0 < n /\ n <= MaxAids

\* lines 160-193: one get_device_details call with the list as it is; one
\* row per returned record.  ok = FALSE: the call or the reading of its
\* body raises, which ends the request
DetailFetch(ok, recs) ==
  /\ pc = "detail"
  /\ WithinCeiling(Len(returned_aid_list))
  /\ fetch_calls' = fetch_calls + 1
  /\ fetch_ids' = returned_aid_list
  /\ IF ok
     THEN /\ host_info_list' = host_info_list \o DeviceRows(recs)
          /\ pc' = "done"
          /\ exc' = exc
     ELSE /\ host_info_list' = host_info_list
          /\ pc' = "error"
          /\ exc' = "EnrichmentFailure"
  /\ details_response' = (IF ok THEN recs ELSE details_response)
  /\ UNCHANGED <<dlvars, submitted_list, iname_list, hname_list, tasks,
                 aid_objs, aid_list, flat>>

\* lines 195-200
DetailRefuse ==
  /\ pc = "detail"
  /\ Len(returned_aid_list) # 0
  /\ ~WithinCeiling(Len(returned_aid_list))
  /\ host_info_list' =
       Append(host_info_list, AggregateRow(Len(returned_aid_list)))
  /\ pc' = "done"
  /\ UNCHANGED <<dlvars, details_response,
                 submitted_list, exc, iname_list, hname_list, tasks,
                 aid_objs, aid_list, flat, fetch_calls, fetch_ids>>

Next ==
  \/ CallFileParse
  \/ Branch
  \/ MapInames
  \/ MapHnames
  \/ \E i \in 1..Len(tasks) : StartTask(i)
  \/ \E i \in 1..Len(tasks), status \in StatusCodes, res \in SearchResults :
       Respond(i, status, res)
  \/ \E i \in 1..Len(tasks) : AppendAid(i)
  \/ FlattenRead
  \/ FlattenStore
  \/ ExitPool
  \/ DetailEmpty
  \/ DetailFetch(FALSE, <<>>)
  \/ \E recs \in DetailResponses : DetailFetch(TRUE, recs)
  \/ DetailRefuse

Spec == Init /\ [][Next]_vars

\* the steps of the thread that runs upload_file
MainSteps ==
  \/ CallFileParse \/ Branch \/ MapInames \/ MapHnames
  \/ FlattenRead \/ FlattenStore \/ ExitPool
  \/ DetailEmpty \/ DetailFetch(FALSE, <<>>)
  \/ (\E recs \in DetailResponses : DetailFetch(TRUE, recs))
  \/ DetailRefuse

\* the steps of the pool's worker threads
WorkerSteps ==
  \/ \E i \in 1..Len(tasks) : StartTask(i)
  \/ \E i \in 1..Len(tasks), status \in StatusCodes, res \in SearchResults :
       Respond(i, status, res)
  \/ \E i \in 1..Len(tasks) : AppendAid(i)

\* texts with the instance-id lines first: file_parse returns the same two
\* buckets for every other order of the same lines
InstanceLines(m) == [k \in 1..m |-> <<"i", "-", "a">>]
HostLines(n) == [k \in 1..n |-> <<"a", ".", "c">>]

InitFair ==
  /\ submitted_list \in
       {JoinLines(InstanceLines(q[1]) \o HostLines(q[2])) :
          q \in {r \in (0..MaxLines) \X (0..MaxLines) : r[1] + r[2] <= MaxLines}}
  /\ InitRest
  /\ DlIdle

\* every thread that can run is run, and every remote call returns
SpecFair ==
  InitFair /\ [][Next]_vars /\ WF_vars(MainSteps) /\ WF_vars(WorkerSteps)

----------------------------------------------------------------------------
(* Quantities the properties speak of *)

Count(seq, x) == Cardinality({k \in 1..Len(seq) : seq[k] = x})
Range(seq) == {seq[k] : k \in 1..Len(seq)}

Finished == pc \in {"done", "error"}
AllDone == \A k \in 1..Len(tasks) : tasks[k].st = "done"
\* the request was turned away by file_parse
Rejected == TooManyNames(host_list_of(submitted_list))

RECURSIVE SumCalls(_)
SumCalls(ts) == IF ts = <<>> THEN 0 ELSE ts[1].calls + SumCalls(Tail(ts))

\* identities matched over all tokens, with repetitions
RECURSIVE TotalMatched(_)
TotalMatched(ts) == IF ts = <<>> THEN 0 ELSE Len(ts[1].aid) + TotalMatched(Tail(ts))

MatchedDevices == UNION {Range(tasks[k].aid) : k \in 1..Len(tasks)}

AllPlain(l) == \A k \in 1..Len(l) : l[k].plain
\* occurrences of device d as a plain element of an aid list
PlainCount(l, d) == Count(l, Plain(d))

\* the flattening lost nothing and nested nothing
RaceFree ==
  /\ AllPlain(returned_aid_list)
  /\ Len(returned_aid_list) = TotalMatched(tasks)

ResolverRows == SelectSeq(host_info_list, LAMBDA r : r.kind \in {"notfound", "error"})

----------------------------------------------------------------------------
(* C1: a text with more than MaxNames non-empty lines makes no remote      *)
(* search or detail call and the request ends with exactly the one         *)
(* "too many names" row.                                                   *)
C1_BatchTooLargeRow ==
  (Finished /\ Rejected) =>
     /\ pc = "done"
     /\ host_info_list = <<TooManyRow>>
     /\ SumCalls(tasks) = 0
     /\ fetch_calls = 0

(* C2: when two distinct tokens' lookups return the same identity, the     *)
(* list passed to the detail fetch holds that identity exactly once.       *)
(* Stated for the runs in which the flattening lost and nested nothing.    *)
C2_FetchIdsDeduplicated ==
  \A d \in Devices :
    ( /\ fetch_calls > 0
      /\ AllPlain(fetch_ids)
      /\ \E i, j \in 1..Len(tasks) :
            /\ tasks[i].tok # tasks[j].tok
            /\ d \in Range(tasks[i].aid)
            /\ d \in Range(tasks[j].aid) )
    => PlainCount(fetch_ids, d) = 1

(* C3: with between 1 and MaxAids unique matched identities the detail     *)
(* fetch is performed; with more, no fetch is made, one advisory row with  *)
(* the count is appended and the resolver's rows are kept.  Stated for the *)
(* runs in which the flattening lost and nested nothing.                   *)
C3_CeilingOnUniqueIdentities ==
  (Finished /\ ~Rejected /\ RaceFree) =>
     LET u == Cardinality(MatchedDevices) IN
     /\ (1 <= u /\ u <= MaxAids) => fetch_calls = 1
     /\ u > MaxAids =>
          /\ fetch_calls = 0
          /\ host_info_list = ResolverRows \o <<AggregateRow(u)>>

(* C4: when no token matched anything, the request completes normally with *)
(* no detail fetch and its output is exactly the resolver's NotFound and   *)
(* TransientError rows.                                                    *)
C4_NoMatchCompletes ==
  (Finished /\ ~Rejected /\ Len(tasks) > 0 /\ TotalMatched(tasks) = 0) =>
     /\ pc = "done"
     /\ fetch_calls = 0
     /\ host_info_list = ResolverRows
     /\ Len(host_info_list) = Len(tasks)

\* the request is past the end of the with block of cs_query_devices
PastJoin == pc = "detail" \/ (Finished /\ ~Rejected)

TasksWhere(P(_)) == Cardinality({k \in 1..Len(tasks) : P(tasks[k])})
Tokens == {tasks[k].tok : k \in 1..Len(tasks)}

\* sub-lists appended by the workers and still sub-lists, in either list
AppendedCount(r) == Count(aid_objs.old, SubList(r)) + Count(aid_objs.new, SubList(r))
NestedIn(l) == Cardinality({k \in 1..Len(l) : ~l[k].plain})

(* C5: a token whose search returns a status other than 200 yields exactly *)
(* one TransientError row for that token, and every other token's lookup   *)
(* is still issued, completes and has its own outcome recorded: one        *)
(* NotFound row per token without matches, one appended identity list per  *)
(* token with matches.                                                     *)
C5_FailureIsolation ==
  PastJoin =>
    /\ Len(tasks) = Len(iname_list.items) + Len(hname_list.items)
    /\ \A k \in 1..Len(tasks) : tasks[k].st = "done" /\ tasks[k].calls = 1
    /\ \A tok \in Tokens :
         /\ Count(host_info_list, ErrorRow(tok))
              = TasksWhere(LAMBDA t : t.tok = tok /\ t.status # 200)
         /\ Count(host_info_list, NotFoundRow(tok))
              = TasksWhere(LAMBDA t : t.tok = tok /\ t.status = 200 /\ t.aid = <<>>)
    /\ \A r \in SearchResults \ {<<>>} :
         AppendedCount(r) = TasksWhere(LAMBDA t : t.status = 200 /\ t.aid = r)

C5_Witness ==
  /\ pc = "detail"
  /\ \E i, j, k \in 1..Len(tasks) :
       /\ tasks[i].status = 500
       /\ tasks[j].status = 200 /\ tasks[j].aid # <<>>
       /\ tasks[k].status = 200 /\ tasks[k].aid = <<>>
       /\ i < j /\ i < k

(* C6: every token causes exactly one remote search call, never repeated,  *)
(* and a finished lookup has contributed exactly one outcome: at every     *)
(* moment the NotFound rows, TransientError rows and appended identity     *)
(* lists together are as many as the finished lookups.                     *)
C6_OneOutcomePerToken ==
  /\ \A k \in 1..Len(tasks) :
       tasks[k].calls = (IF tasks[k].st = "queued" THEN 0 ELSE 1)
  /\ Len(ResolverRows) + Len(aid_objs.old) + NestedIn(aid_objs.new)
       = TasksWhere(LAMBDA t : t.st = "done")
  /\ PastJoin => TasksWhere(LAMBDA t : t.st = "done")
                   = Len(iname_list.items) + Len(hname_list.items)

C6_Witness ==
  /\ pc = "detail"
  /\ Len(tasks) = MaxNames
  /\ \E i, j \in 1..Len(tasks) :
       /\ tasks[i].status = 500
       /\ tasks[j].status = 200 /\ tasks[j].aid # <<>>

(* C7: no aggregation step (the flattening, the ceiling check, the detail  *)
(* fetch) starts before every submitted lookup task has completed.         *)
C7_JoinBeforeAggregation ==
  pc \in {"rebind", "join", "detail", "done"} => AllDone

(* C10: a request whose matched identities are non-empty and within the    *)
(* ceiling makes exactly one detail fetch, whose argument holds every      *)
(* matched identity as a plain identity; a rejected request and a request  *)
(* without matches make none.                                              *)
C10_SingleBatchedFetch ==
  Finished =>
    /\ (~Rejected /\ 0 < TotalMatched(tasks) /\ TotalMatched(tasks) <= MaxAids) =>
         /\ fetch_calls = 1
         /\ AllPlain(fetch_ids)
         /\ \A d \in MatchedDevices : PlainCount(fetch_ids, d) >= 1
    /\ (Rejected \/ TotalMatched(tasks) = 0) => fetch_calls = 0

----------------------------------------------------------------------------
(* file_parse, stated on the submitted text itself *)

NoNewline(text, a, b) == \A m \in a..b : text[m] # NL

\* position k holds the first character of its line that is not whitespace
LineStart(text, k) ==
  /\ text[k] \notin Whitespace
  /\ \A j \in 1..(k - 1) :
       text[j] \notin Whitespace => ~NoNewline(text, j, k)

\* the last character of the line of k that is not whitespace
LineEnd(text, k) ==
  CHOOSE q \in k..Len(text) :
    /\ text[q] \notin Whitespace
    /\ NoNewline(text, k, q)
    /\ \A r \in (q + 1)..Len(text) :
         text[r] \notin Whitespace => ~NoNewline(text, k, r)

\* the trimmed line that starts at k, cut before its first "."
TokenAt(text, k) ==
  LET e == LineEnd(text, k)
      dots == {p \in k..e : text[p] = "."}
      cut == IF dots = {} THEN e
             ELSE (CHOOSE p \in dots : \A o \in dots : p <= o) - 1
  IN SubSeq(text, k, cut)

RECURSIVE TokensFrom(_, _)
TokensFrom(text, k) ==
  IF k > Len(text) THEN <<>>
  ELSE IF LineStart(text, k) THEN <<TokenAt(text, k)>> \o TokensFrom(text, k + 1)
  ELSE TokensFrom(text, k + 1)

ExpectedTokens == TokensFrom(submitted_list, 1)

\* file_parse has returned two lists
Accepted == pc = "branch" /\ Len(ExpectedTokens) <= MaxNames

(* C8: for a text of at most MaxNames non-empty lines the two buckets      *)
(* together hold exactly one token per non-empty trimmed line and none for *)
(* empty lines, each token being the line cut before its first ".", and    *)
(* each token in exactly one of the two buckets.                           *)
C8_FileParsePartition ==
  Accepted =>
    /\ iname_list.isList /\ hname_list.isList
    /\ Len(iname_list.items) + Len(hname_list.items) = Len(ExpectedTokens)
    /\ \A t \in Range(ExpectedTokens) \cup Range(iname_list.items)
                  \cup Range(hname_list.items) :
         Count(iname_list.items, t) + Count(hname_list.items, t)
           = Count(ExpectedTokens, t)
    /\ Range(iname_list.items) \cap Range(hname_list.items) = {}

C8_Witness ==
  /\ Accepted
  /\ iname_list.items # <<>>
  /\ hname_list.items # <<>>
  /\ \E k \in 1..Len(submitted_list) : submitted_list[k] = "."
  /\ \E k \in 1..(Len(submitted_list) - 1) :
       submitted_list[k] = NL /\ submitted_list[k + 1] = NL
  /\ \E k \in 1..Len(submitted_list) :
       submitted_list[k] = " " /\ ~LineStart(submitted_list, k)

StartsWithIDash(t) == Len(t) >= 2 /\ t[1] = "i" /\ t[2] = "-"

(* C9, as claimed: a token is in the instance-id bucket if and only if it  *)
(* starts with "i-", whatever follows, and in the hostname bucket          *)
(* otherwise.                                                              *)
C9_StartsWithIDashOnly ==
  Accepted =>
    \A t \in Range(ExpectedTokens) :
      /\ t \in Range(iname_list.items) <=> StartsWithIDash(t)
      /\ t \in Range(hname_list.items) <=> ~StartsWithIDash(t)

(* C9, amended: a token is in the instance-id bucket if and only if it     *)
(* starts with "i-" followed at once by a word character, and in the       *)
(* hostname bucket otherwise.                                              *)
C9_IDashThenWordChar ==
  Accepted =>
    \A t \in Range(ExpectedTokens) :
      LET inst == StartsWithIDash(t) /\ Len(t) >= 3 /\ t[3] \in {"i", "a"} IN
      /\ t \in Range(iname_list.items) <=> inst
      /\ t \in Range(hname_list.items) <=> ~inst

C9_Witness ==
  /\ Accepted
  /\ \E t \in Range(iname_list.items) : StartsWithIDash(t)
  /\ \E t \in Range(hname_list.items) : StartsWithIDash(t)

----------------------------------------------------------------------------
(* C11: whatever the text and the search outcomes, the request ends by     *)
(* returning rows; it ends with an error only when the detail fetch itself *)
(* failed.                                                                 *)
C11_OnlyFetchFailsRequest ==
  pc = "error" => (exc = "EnrichmentFailure" /\ fetch_calls = 1)

(* C12: at most MaxWorkers search calls are in flight at any moment, over  *)
(* both buckets together; a task beyond the width stays queued until a     *)
(* worker is free.                                                         *)
C12_ConcurrencyCeiling ==
  /\ Cardinality({k \in 1..Len(tasks) : tasks[k].st = "calling"}) <= MaxWorkers
  /\ Cardinality(Running) <= MaxWorkers

C12_Witness ==
  /\ Len(tasks) > MaxWorkers
  /\ Cardinality({k \in 1..Len(tasks) : tasks[k].st = "calling"}) = MaxWorkers
  /\ \E i, j \in 1..Len(tasks) :
       /\ tasks[i].kind = "iname" /\ tasks[i].st = "calling"
       /\ tasks[j].kind = "hname" /\ tasks[j].st = "calling"
  /\ \E k \in 1..Len(tasks) : tasks[k].st = "queued"

DeviceRowsOf(l) == SelectSeq(l, LAMBDA r : r.kind = "device")

(* C13: when enrichment runs, exactly one device row is appended per       *)
(* record the detail fetch returned, in the order returned, none dropped,  *)
(* duplicated or reordered.                                                *)
C13_EnricherOrderAndCount ==
  (pc = "done" /\ fetch_calls = 1) =>
    /\ DeviceRowsOf(host_info_list)
         = [k \in 1..Len(details_response) |-> DeviceRow(details_response[k])]
    /\ Len(host_info_list) = Len(ResolverRows) + Len(details_response)

C13_Witness ==
  /\ pc = "done"
  /\ fetch_calls = 1
  /\ Len(details_response) >= 2
  /\ details_response[1] # details_response[2]

(* C14: under fair scheduling, once an accepted batch has been parsed      *)
(* every lookup task is eventually run to its end and the request reaches  *)
(* cs_detail_search with all of them done.                                 *)
C14_RunToCompletion ==
  (pc = "branch" /\ ~Rejected)
    ~> ( /\ pc = "detail"
         /\ AllDone
         /\ Len(tasks) = Len(iname_list.items) + Len(hname_list.items) )

C14_Witness ==
  /\ pc = "detail"
  /\ AllDone
  /\ Len(tasks) > MaxWorkers

(* C16: the identity list returned by cs_query_devices is flat and holds   *)
(* every identity of every successful lookup; its length is the total      *)
(* number of identities matched.                                           *)
C16_FlatAndComplete ==
  PastJoin =>
    /\ AllPlain(returned_aid_list)
    /\ Len(returned_aid_list) = TotalMatched(tasks)
    /\ \A d \in MatchedDevices : PlainCount(returned_aid_list, d) >= 1

(* C17: every token file_parse puts in a bucket is a non-empty string.     *)
C17_NonEmptyTokens ==
  Accepted =>
    \A t \in Range(iname_list.items) \cup Range(hname_list.items) : t # <<>>

IsPrefix(a, b) == Len(a) <= Len(b) /\ \A k \in 1..Len(a) : b[k] = a[k]

\* resolver rows first, then only device rows or the one advisory row
Layout(l) ==
  \A a, b \in 1..Len(l) :
    (l[a].kind \in {"notfound", "error"} /\ l[b].kind \in {"device", "aggregate"})
      => a < b

(* C18: cs_detail_search only appends to the row list, never removing or   *)
(* rewriting a row of the resolver, and in a completed request every       *)
(* NotFound or TransientError row precedes every device row and the        *)
(* advisory row.                                                           *)
C18_OutputLayout ==
  [][ /\ pc = "detail" =>
           /\ IsPrefix(host_info_list, host_info_list')
           /\ \A k \in 1..Len(host_info_list) :
                 host_info_list[k].kind \in {"notfound", "error"}
           /\ \A k \in (Len(host_info_list) + 1)..Len(host_info_list') :
                 host_info_list'[k].kind \in {"device", "aggregate"}
      /\ pc' = "done" => Layout(host_info_list')
    ]_vars

C18_Witness ==
  /\ pc = "done"
  /\ \E a, b, c \in 1..Len(host_info_list) :
       /\ host_info_list[a].kind = "notfound"
       /\ host_info_list[b].kind = "error"
       /\ host_info_list[c].kind = "device"

----------------------------------------------------------------------------
(* sensor_download.py in download mode.                                    *)
(*                                                                         *)
(* A sensor record is [platform, os, os_version]; "" stands for a value    *)
(* that is None or empty.  The installer a record describes (its name,     *)
(* version, description and sha256) is named by the record's position in   *)
(* the list.  A bucket label f"{os} {os_version}".strip() is the pair      *)
(* <<os, os_version>>.  Slot value 0: the slot is not in the dict.         *)

KnownPlatforms == {"windows", "mac", "linux"}

SampleSensors ==
  { [platform |-> "linux", os |-> "A", os_version |-> "1"],
    [platform |-> "linux", os |-> "A", os_version |-> "2"],
    [platform |-> "mac",   os |-> "A", os_version |-> "1"],
    [platform |-> "other", os |-> "A", os_version |-> "1"],
    [platform |-> "",      os |-> "A", os_version |-> "1"],
    [platform |-> "linux", os |-> "",  os_version |-> "1"] }

Label(rec) == <<rec.os, rec.os_version>>
Labels == {Label(r) : r \in SampleSensors}

NoBucket == [exists |-> FALSE, current |-> 0, previous |-> 0, oldest |-> 0]

\* version_map = {"windows": {}, "mac": {}, "linux": {}}
EmptyMap == [b \in KnownPlatforms \X Labels |-> NoBucket]

InitDownload ==
  /\ sensors \in SeqsUpTo(SampleSensors, MaxSensors)
  /\ NMINUS \in {0, 1, 2}
  /\ SHOW_ALL \in BOOLEAN
  /\ OSVER \in {"", "1"}
  /\ dpc = "get_version_map"
  /\ sidx = 0
  /\ version_map = EmptyMap
  /\ DO_DOWNLOAD = TRUE
  /\ dl_complete = <<>>
  /\ downloads = <<>>
  /\ notes = <<>>
  /\ submitted_list = <<>>
  /\ InitRest

\* lines 110-137: the record meets the bucket with its label
MeetBucket(d, i) ==
  LET current == d.current # 0
      d1 == IF d.current = 0 THEN [d EXCEPT !.current = i] ELSE d
      d2 == IF current /\ d1.previous = 0 THEN [d1 EXCEPT !.previous = i] ELSE d1
      prev == current /\ ~(current /\ d1.previous = 0) /\ d1.previous # 0
      d3 == IF current /\ prev /\ d2.oldest = 0 THEN [d2 EXCEPT !.oldest = i] ELSE d2
  IN d3

\* get_version_map, one turn of the loop of line 96 for sensors[i]
GetVersionMapStep ==
  /\ dpc = "get_version_map"
  /\ sidx < Len(sensors)
  /\ LET i == sidx + 1
         rec == sensors[i]
         key == <<rec.platform, Label(rec)>>
     IN IF rec.platform # "" /\ rec.os # ""
        THEN IF rec.platform \in KnownPlatforms /\ version_map[key].exists
             THEN \* lines 109-137; line 139 then finds a flag set
                  /\ version_map' =
                       [version_map EXCEPT ![key] = MeetBucket(@, i)]
                  /\ dpc' = dpc
             ELSE IF rec.platform \in KnownPlatforms
             THEN \* lines 139-146: a new bucket
                  /\ version_map' =
                       [version_map EXCEPT ![key] =
                          [exists |-> TRUE, current |-> i,
                           previous |-> 0, oldest |-> 0]]
                  /\ dpc' = dpc
             ELSE \* line 140: version_map[plat] raises KeyError
                  /\ version_map' = version_map
                  /\ dpc' = "KeyError_line140"
        ELSE /\ version_map' = version_map
             /\ dpc' = dpc
  /\ sidx' = sidx + 1
  /\ UNCHANGED <<hostvars, sensors, NMINUS, SHOW_ALL, OSVER, DO_DOWNLOAD,
                 dl_complete, downloads, notes>>

\* line 148 and lines 233-241
GetVersionMapReturn ==
  /\ dpc = "get_version_map"
  /\ sidx = Len(sensors)
  /\ dpc' = "download"
  /\ sidx' = 0
  /\ UNCHANGED <<hostvars, sensors, NMINUS, SHOW_ALL, OSVER, version_map,
                 DO_DOWNLOAD, dl_complete, downloads, notes>>

\* lines 230, 234-238
NMVER ==
  IF NMINUS = 1 THEN "previous" ELSE IF NMINUS = 2 THEN "oldest" ELSE "current"

\* version_detail[plat_spec][full_name][NMVER]["sha256"]: the installer in
\* the slot, or 0 when a key of the chain is missing (KeyError)
SlotOf(vm, plat, label, slot) ==
  IF plat \notin KnownPlatforms \/ label \notin Labels THEN 0
  ELSE IF ~vm[<<plat, label>>].exists THEN 0
  ELSE IF slot = "previous" THEN vm[<<plat, label>>].previous
  ELSE IF slot = "oldest" THEN vm[<<plat, label>>].oldest
  ELSE vm[<<plat, label>>].current

\* line 244: OSVER in [sensor["os_version"], ""]
PassesOsver(rec) == OSVER = rec.os_version \/ OSVER = ""

\* line 245: full_name not in dl_complete
NotYetDownloadedAlways(label) == TRUE
NotYetDownloaded(label) == \A k \in 1..Len(dl_complete) : dl_complete[k] # label

\* lines 250-253: the KeyError of the lookup is caught
KeyErrorUncaught == FALSE
KeyErrorCaught == TRUE

\* one turn of the loop of line 242 for sensors[i]
DownloadStep ==
  /\ dpc = "download"
  /\ sidx < Len(sensors)
  /\ LET i == sidx + 1
         rec == sensors[i]
         full_name == Label(rec)
         sha == SlotOf(version_map, rec.platform, full_name, NMVER)
     IN IF PassesOsver(rec) /\ DO_DOWNLOAD /\ NotYetDownloaded(full_name)
           /\ rec.platform # ""
        THEN IF sha = 0
             THEN /\ notes' = (IF KeyErrorCaught THEN Append(notes, full_name)
                               ELSE notes)
                  /\ dpc' = (IF KeyErrorCaught THEN dpc
                             ELSE "KeyError_line249")
                  /\ UNCHANGED <<downloads, dl_complete, DO_DOWNLOAD>>
             ELSE /\ downloads' =
                       Append(downloads,
                              [label |-> full_name, sha |-> sha, at |-> i])
                  /\ dl_complete' = Append(dl_complete, full_name)
                  /\ DO_DOWNLOAD' = (IF ~SHOW_ALL THEN FALSE ELSE DO_DOWNLOAD)
                  /\ UNCHANGED <<notes, dpc>>
        ELSE UNCHANGED <<notes, dpc, downloads, dl_complete, DO_DOWNLOAD>>
  /\ sidx' = sidx + 1
  /\ UNCHANGED <<hostvars, sensors, NMINUS, SHOW_ALL, OSVER, version_map>>

\* the loop of line 242 is over
DownloadEnd ==
  /\ dpc = "download"
  /\ sidx = Len(sensors)
  /\ dpc' = "end"
  /\ UNCHANGED <<hostvars, sensors, NMINUS, SHOW_ALL, OSVER, sidx,
                 version_map, DO_DOWNLOAD, dl_complete, downloads, notes>>

NextDownload ==
  \/ GetVersionMapStep
  \/ GetVersionMapReturn
  \/ DownloadStep
  \/ DownloadEnd

SpecDownload == InitDownload /\ [][NextDownload]_vars

----------------------------------------------------------------------------
(* Helpers for the statements about sensor_download.py.                    *)

\* positions of the records of bucket (plat, label) among the first n
BucketRecords(plat, label, n) ==
  {k \in 1..n : /\ sensors[k].platform = plat
                /\ sensors[k].os # ""
                /\ Label(sensors[k]) = label}

\* the j-th smallest member of a set of positions, 0 when there is none
Nth(S, j) ==
  IF Cardinality(S) < j THEN 0
  ELSE CHOOSE k \in S : Cardinality({m \in S : m < k}) = j - 1

\* the record the loop looks at in turn k would be downloaded if tried
Eligible(k) ==
  /\ PassesOsver(sensors[k])
  /\ sensors[k].platform # ""
  /\ SlotOf(version_map, sensors[k].platform, Label(sensors[k]), NMVER) # 0

\* the lookup of turn k raises KeyError
SlotMissing(k) ==
  /\ PassesOsver(sensors[k])
  /\ sensors[k].platform # ""
  /\ SlotOf(version_map, sensors[k].platform, Label(sensors[k]), NMVER) = 0

InLoop == dpc \in {"download", "end", "KeyError_line249"}

LineageOf(plat, label, n) ==
  LET S == BucketRecords(plat, label, n)
  IN [exists |-> S # {}, current |-> Nth(S, 1),
      previous |-> Nth(S, 2), oldest |-> Nth(S, 3)]

C19_LineageAssignment ==
  /\ dpc # "KeyError_line140"
  /\ dpc = "get_version_map" =>
       \A b \in KnownPlatforms \X Labels :
         version_map[b] = LineageOf(b[1], b[2], sidx)

\* the lineage part alone, for runs in which every platform is known
LineageOnKnownPlatforms ==
  (dpc = "get_version_map"
     /\ \A k \in 1..sidx : sensors[k].platform \in KnownPlatforms \cup {""}) =>
    \A b \in KnownPlatforms \X Labels :
      version_map[b] = LineageOf(b[1], b[2], sidx)

(* C20: each bucket label is downloaded at most once per run, and without  *)
(* --all at most one download is made in the run: the one of the first     *)
(* record that passes the OS-version filter and whose bucket has the       *)
(* requested slot; nothing is downloaded after it.                         *)
C20_DownloadOnce ==
  InLoop =>
    /\ \A j, k \in 1..Len(dl_complete) :
         dl_complete[j] = dl_complete[k] => j = k
    /\ Len(downloads) = Len(dl_complete)
    /\ \A k \in 1..Len(downloads) : downloads[k].label = dl_complete[k]
    /\ \A j, k \in 1..Len(downloads) :
         downloads[j].label = downloads[k].label => j = k
    /\ ~SHOW_ALL =>
         /\ Len(downloads) <= 1
         /\ LET E == {k \in 1..sidx : Eligible(k)}
            IN IF E = {} THEN downloads = <<>>
               ELSE /\ Len(downloads) = 1
                    /\ downloads[1].at = Nth(E, 1)
                    /\ downloads[1].label = Label(sensors[Nth(E, 1)])

\* a run without --all in which the first eligible record is not the first
\* record and another eligible record follows it
C20_Witness ==
  /\ dpc = "end"
  /\ ~SHOW_ALL
  /\ Len(downloads) = 1
  /\ downloads[1].at > 1
  /\ \E k \in 1..Len(sensors) : k > downloads[1].at /\ Eligible(k)

====
